---- MODULE Spec2Model ----
(***************************************************************************)
(* The resilient concurrent fetch orchestrator (DataAggregator.fetch_all)  *)
(* with its RateLimiter, CircuitBreaker and retry loop, in the two         *)
(* variants of the repository:                                             *)
(*   "mcp"   docs/comparison-tests/results-with-mcp/python/test-5-result.py *)
(*   "plain" docs/comparison-tests/results-without-mcp/python/test-5-result.py *)
(*                                                                         *)
(* Time is an integer number of ticks.  One tick is 1/TokScale of the time *)
(* in which the limiter earns one token (time_window / max_requests), so   *)
(* the token count of the "mcp" bucket is held in units of 1/TokScale      *)
(* token and a refill over k ticks adds exactly k units.                   *)
(***************************************************************************)
EXTENDS Integers, Sequences, FiniteSets, TLC

----------------------------------------------------------------------------
(* Bounds of the model. *)
MaxTime == 3
MaxThreshold == 2
MaxRecovery == 2
MaxFailures == 3
TokScale == 2
MaxRate == 2
MaxTasks == 2
MaxAcquires == 4
MaxCalls == 2
MaxRetries == 3
RequestTimeout == 1
BaseDelay == 1

Endpoints == {"a", "b"}
Variants == {"mcp", "plain"}
Tasks == 1..MaxTasks

VARIABLES
  variant,            \* which of the two source files is running
  now,                \* time.monotonic(), in ticks
  failure_threshold,  \* CircuitBreaker.failure_threshold / max_failures
  recovery_timeout,   \* CircuitBreaker.recovery_timeout / recovery_time
  cb_failure_counts,  \* mcp: CircuitBreaker._failure_counts (dict)
  cb_open_times,      \* mcp: CircuitBreaker._open_times (dict)
  cb_states,          \* mcp: CircuitBreaker._states (dict)
  circuit_breakers,   \* plain: DataAggregator._circuit_breakers (dict of records)
  ret,                \* the last breaker operation with what it saw and returned
  hist,               \* per endpoint: failures recorded since the last success,
                      \* the stored state that success found, and the time at
                      \* which a failure last took the endpoint from available
                      \* to OPEN (-1: none since the last success)
  max_requests,       \* RateLimiter._max_requests
  tokens,             \* mcp: RateLimiter._tokens, in units of 1/TokScale token
  last_update,        \* mcp: RateLimiter._last_update
  requests,           \* plain: RateLimiter._requests (admission times, oldest first)
  lock,               \* RateLimiter._lock: the task holding it, 0 when free
  lock_waiters,       \* RateLimiter._lock: the tasks queued on it, first come first
  pc,                 \* where each task (coroutine) stands
  wake,               \* per task: the time its current sleep or deadline ends
  admits,             \* the times at which acquire() returned, in order
  max_retries,        \* DataAggregator._max_retries
  phase,              \* fetch_all: "idle", "running", "returned", "raised" or "cancelled"
  calls,              \* fetch_all invocations on this aggregator so far
  endpoints,          \* fetch_all's endpoints argument; task i serves endpoints[i]
  sink,               \* fetch_all's on_progress argument: absent, or how it behaves
  successful,         \* fetch_all's successful dict
  failed,             \* fetch_all's failed dict
  completed,          \* fetch_all's completed counter
  sink_calls,         \* invocations of on_progress in this call
  attempt,            \* per task: the retry loop's attempt index
  outcome,            \* plain, per task: the (result, error) fetch_one returned
  chk,                \* per task: what the breaker record said when the task checked it
  acq,                \* per task: acquire() calls that returned
  sent,               \* per task: invocations of the transport
  left_open,          \* endpoints the earlier calls left Open, with their stamps
  taken,              \* tokens taken from this aggregator's bucket so far
  recorded,           \* per task: record_success / record_failure calls it made
  errors,             \* per task: the reasons of its failed attempts, in order
  slept,              \* per task: the backoff delays it asked asyncio.sleep for
  finalized,          \* the tasks of this call in the order their outcome was final
  events              \* the invocations of on_progress in this call, in order: the
                      \* task reported and the ProgressInfo handed over

cbVars == <<cb_failure_counts, cb_open_times, cb_states, circuit_breakers>>
cfgVars == <<variant, failure_threshold, recovery_timeout, max_requests, max_retries>>
rlVars == <<tokens, last_update, requests, lock, lock_waiters>>
cbGhost == <<ret, hist>>
taskVars == <<pc, wake>>
resultVars == <<successful, failed, completed, sink_calls>>
traceVars == <<recorded, errors, slept, finalized, events>>
callVars == <<phase, calls, endpoints, sink, successful, failed, completed,
              sink_calls, attempt, outcome, chk, acq, sent, left_open, taken,
              recorded, errors, slept, finalized, events>>
vars == <<variant, now, failure_threshold, recovery_timeout, cb_failure_counts,
          cb_open_times, cb_states, circuit_breakers, ret, hist, max_requests,
          tokens, last_update, requests, lock, lock_waiters, pc, wake, admits,
          max_retries, phase, calls, endpoints, sink, successful, failed,
          completed, sink_calls, attempt, outcome, chk, acq, sent, left_open, taken,
          recorded, errors, slept, finalized, events>>

----------------------------------------------------------------------------
(* Python dicts as functions on the set of keys present. *)
EmptyDict == [x \in {} |-> 0]
Get(d, k, default) == IF k \in DOMAIN d THEN d[k] ELSE default
Put(d, k, v) == [x \in DOMAIN d \cup {k} |-> IF x = k THEN v ELSE d[x]]
Min(x, y) == IF x <= y THEN x ELSE y

----------------------------------------------------------------------------
(* CircuitBreaker, "mcp" variant: one registry keyed by endpoint, held here *)
(* as a record cb of its three dicts.                                      *)

Registry == [counts |-> cb_failure_counts, open_times |-> cb_open_times,
             states |-> cb_states]

\* get_state with the recovery test made strict.
get_state_strict(cb, endpoint) ==
  IF endpoint \notin DOMAIN cb.states
    THEN [result |-> "CLOSED", cb |-> cb]
    ELSE IF cb.states[endpoint] = "OPEN"
            /\ now - Get(cb.open_times, endpoint, 0) > recovery_timeout
           THEN [result |-> "HALF_OPEN",
                 cb |-> [cb EXCEPT !.states = Put(@, endpoint, "HALF_OPEN")]]
           ELSE [result |-> cb.states[endpoint], cb |-> cb]

\* get_state that stamps a not yet recovered Open endpoint with the time of the call.
get_state_restamps(cb, endpoint) ==
  IF endpoint \notin DOMAIN cb.states
    THEN [result |-> "CLOSED", cb |-> cb]
    ELSE IF cb.states[endpoint] = "OPEN"
           THEN IF now - Get(cb.open_times, endpoint, 0) >= recovery_timeout
                  THEN [result |-> "HALF_OPEN",
                        cb |-> [cb EXCEPT !.states = Put(@, endpoint, "HALF_OPEN")]]
                  ELSE [result |-> "OPEN",
                        cb |-> [cb EXCEPT !.open_times = Put(@, endpoint, now)]]
           ELSE [result |-> cb.states[endpoint], cb |-> cb]

\* get_state: the state reported for an endpoint and the registry afterwards.
get_state(cb, endpoint) ==
  IF endpoint \notin DOMAIN cb.states
    THEN [result |-> "CLOSED", cb |-> cb]
    ELSE IF cb.states[endpoint] = "OPEN"
            /\ now - Get(cb.open_times, endpoint, 0) >= recovery_timeout
           THEN [result |-> "HALF_OPEN",
                 cb |-> [cb EXCEPT !.states = Put(@, endpoint, "HALF_OPEN")]]
           ELSE [result |-> cb.states[endpoint], cb |-> cb]

\* is_open: get_state(endpoint) == OPEN, with get_state's transition.
is_open(cb, endpoint) ==
  [result |-> (get_state(cb, endpoint).result = "OPEN"),
   cb |-> get_state(cb, endpoint).cb]

\* record_success that only closes the circuit and keeps the count.
record_success_keep_count(cb, endpoint) ==
  [cb EXCEPT !.states = Put(@, endpoint, "CLOSED")]

\* record_success on a breaker that keeps one record for all endpoints.
record_success_all(cb, endpoint) ==
  [cb EXCEPT !.counts = [x \in DOMAIN cb.counts \cup {endpoint} |-> 0],
             !.states = [x \in DOMAIN cb.states \cup {endpoint} |-> "CLOSED"]]

record_success(cb, endpoint) ==
  [cb EXCEPT !.counts = Put(@, endpoint, 0),
             !.states = Put(@, endpoint, "CLOSED")]

\* record_failure that opens one failure late.
record_failure_late(cb, endpoint) ==
  LET c == Get(cb.counts, endpoint, 0) + 1
  IN  IF c > failure_threshold
        THEN [counts |-> Put(cb.counts, endpoint, c),
              states |-> Put(cb.states, endpoint, "OPEN"),
              open_times |-> Put(cb.open_times, endpoint, now)]
        ELSE [cb EXCEPT !.counts = Put(@, endpoint, c)]

\* record_failure that opens only when the count reaches the threshold exactly.
record_failure_exact(cb, endpoint) ==
  LET c == Get(cb.counts, endpoint, 0) + 1
  IN  IF c = failure_threshold
        THEN [counts |-> Put(cb.counts, endpoint, c),
              states |-> Put(cb.states, endpoint, "OPEN"),
              open_times |-> Put(cb.open_times, endpoint, now)]
        ELSE [cb EXCEPT !.counts = Put(@, endpoint, c)]

\* record_failure whose count stops at the threshold: later failures are lost.
record_failure_saturating(cb, endpoint) ==
  LET c == Min(Get(cb.counts, endpoint, 0) + 1, failure_threshold)
  IN  IF c >= failure_threshold
        THEN [counts |-> Put(cb.counts, endpoint, c),
              states |-> Put(cb.states, endpoint, "OPEN"),
              open_times |-> Put(cb.open_times, endpoint, now)]
        ELSE [cb EXCEPT !.counts = Put(@, endpoint, c)]

\* record_failure that opens without noting the time.
record_failure_unstamped(cb, endpoint) ==
  LET c == Get(cb.counts, endpoint, 0) + 1
  IN  IF c >= failure_threshold
        THEN [cb EXCEPT !.counts = Put(@, endpoint, c),
                        !.states = Put(@, endpoint, "OPEN")]
        ELSE [cb EXCEPT !.counts = Put(@, endpoint, c)]

record_failure(cb, endpoint) ==
  LET c == Get(cb.counts, endpoint, 0) + 1
  IN  IF c >= failure_threshold
        THEN [counts |-> Put(cb.counts, endpoint, c),
              states |-> Put(cb.states, endpoint, "OPEN"),
              open_times |-> Put(cb.open_times, endpoint, now)]
        ELSE [cb EXCEPT !.counts = Put(@, endpoint, c)]

\* The registry written back to the three dicts.
SetRegistry(cb) ==
  /\ cb_failure_counts' = cb.counts
  /\ cb_open_times' = cb.open_times
  /\ cb_states' = cb.states

----------------------------------------------------------------------------
(* CircuitBreaker, "plain" variant: one object per endpoint, made lazily.  *)

NewBreaker == [failure_count |-> 0, state |-> "CLOSED", last_failure_time |-> 0]

\* DataAggregator._get_circuit_breaker: the registry with the endpoint present.
get_circuit_breaker(endpoint) ==
  IF endpoint \notin DOMAIN circuit_breakers
    THEN Put(circuit_breakers, endpoint, NewBreaker)
    ELSE circuit_breakers

plain_record_success(b) == [b EXCEPT !.failure_count = 0, !.state = "CLOSED"]

plain_record_failure(b) ==
  LET c == b.failure_count + 1
  IN  [failure_count |-> c,
       last_failure_time |-> now,
       state |-> IF c >= failure_threshold THEN "OPEN" ELSE b.state]

\* is_available without the recovery test.
plain_is_available_closed_only(b) == b.state = "CLOSED"

plain_is_available(b) ==
  \/ b.state = "CLOSED"
  \/ now - b.last_failure_time >= recovery_timeout

----------------------------------------------------------------------------
(* What both variants answer, without the side effect of asking.           *)

StoredState(e) ==
  IF variant = "mcp" THEN Get(cb_states, e, "CLOSED")
  ELSE Get(circuit_breakers, e, NewBreaker).state

StoredCount(e) ==
  IF variant = "mcp" THEN Get(cb_failure_counts, e, 0)
  ELSE Get(circuit_breakers, e, NewBreaker).failure_count

Available(e) ==
  IF variant = "mcp" THEN ~is_open(Registry, e).result
  ELSE plain_is_available(Get(circuit_breakers, e, NewBreaker))

----------------------------------------------------------------------------
(* RateLimiter.  time_window is max_requests token times, that is          *)
(* max_requests * TokScale ticks; one token is TokScale units.             *)

Capacity == max_requests * TokScale
TimeWindow == max_requests * TokScale
OneToken == TokScale

\* mcp, RateLimiter._refill: credit the time since _last_update, capped.
refill(tok, last) ==
  [tokens |-> Min(Capacity, tok + (now - last)), last_update |-> now]

\* mcp, RateLimiter._wait_for_token from the loop head to its first sleep
\* (sleep = TRUE, the lock is kept) or to the loop's exit (sleep = FALSE).
wait_for_token(tok, last) ==
  IF tok > 0
    THEN [tokens |-> tok, last_update |-> last, sleep |-> FALSE, wait |-> 0]
    ELSE LET r == refill(tok, last)
         IN  [tokens |-> r.tokens, last_update |-> r.last_update,
              sleep |-> (r.tokens <= 0), wait |-> OneToken]

\* mcp, the rest of the loop body after asyncio.sleep returns: _refill, then
\* the loop head again.
after_sleep(tok, last) ==
  LET r == refill(tok, last) IN wait_for_token(r.tokens, r.last_update)

\* plain, the list comprehension of acquire: the admissions younger than the window.
RECURSIVE FilterRecent(_)
FilterRecent(reqs) ==
  IF reqs = <<>> THEN <<>>
  ELSE IF now - Head(reqs) < TimeWindow
         THEN <<Head(reqs)>> \o FilterRecent(Tail(reqs))
         ELSE FilterRecent(Tail(reqs))

\* plain, an acquire that appends without looking at the window.
plain_enter_unlimited(reqs) ==
  [requests |-> Append(FilterRecent(reqs), now), sleep |-> FALSE, wait |-> 0]

\* plain, RateLimiter.acquire from taking the lock to its sleep or its append.
plain_enter(reqs) ==
  LET f == FilterRecent(reqs)
      wait_time == IF f = <<>> THEN 0 ELSE TimeWindow - (now - f[1])
  IN  IF Len(f) >= max_requests /\ wait_time > 0
        THEN [requests |-> f, sleep |-> TRUE, wait |-> wait_time]
        ELSE [requests |-> Append(f, now), sleep |-> FALSE, wait |-> 0]

\* plain, RateLimiter.acquire after its sleep: clean up again and append.
plain_after_sleep(reqs) ==
  [requests |-> Append(FilterRecent(reqs), now), sleep |-> FALSE, wait |-> 0]

\* The critical section of acquire() for task i, which holds the lock or finds
\* it free: run up to the sleep inside it, or to the end (a token is taken).
Critical(i) ==
  IF variant = "mcp"
    THEN LET w == IF pc[i] = "rlsleep" THEN after_sleep(tokens, last_update)
                  ELSE wait_for_token(tokens, last_update)
         IN  [tokens |-> IF w.sleep THEN w.tokens ELSE w.tokens - OneToken,
              last_update |-> w.last_update, requests |-> requests,
              sleep |-> w.sleep, wait |-> w.wait]
    ELSE LET w == IF pc[i] = "rlsleep" THEN plain_after_sleep(requests)
                  ELSE plain_enter(requests)
         IN  [tokens |-> tokens, last_update |-> last_update,
              requests |-> w.requests, sleep |-> w.sleep, wait |-> w.wait]

LockFreeNoWaiting ==
  /\ lock = 0 /\ lock_waiters = <<>>
  /\ \A k \in Tasks : pc[k] \notin {"backoff", "inflight"}

LockFree == lock = 0 /\ lock_waiters = <<>>

\* RunCritical that never gives the lock back once it has taken a token.
RunCriticalKeepsLock(i, cont, deadline) ==
  LET c == Critical(i)
  IN  /\ tokens' = c.tokens
      /\ last_update' = c.last_update
      /\ requests' = c.requests
      /\ lock' = i
      /\ UNCHANGED lock_waiters
      /\ IF c.sleep
           THEN /\ pc' = [pc EXCEPT ![i] = "rlsleep"]
                /\ wake' = [wake EXCEPT ![i] = now + c.wait]
           ELSE /\ pc' = [pc EXCEPT ![i] = cont]
                /\ wake' = [wake EXCEPT ![i] = deadline]

\* Task i runs the critical section; once a token is taken it releases the lock
\* (asyncio.Lock hands it to the first waiter) and goes on at `cont`, where it
\* waits until `deadline` at most.
RunCritical(i, cont, deadline) ==
  LET c == Critical(i)
  IN  /\ tokens' = c.tokens
      /\ last_update' = c.last_update
      /\ requests' = c.requests
      /\ IF c.sleep
           THEN /\ lock' = i
                /\ pc' = [pc EXCEPT ![i] = "rlsleep"]
                /\ wake' = [wake EXCEPT ![i] = now + c.wait]
                /\ UNCHANGED lock_waiters
           ELSE /\ wake' = [wake EXCEPT ![i] = deadline]
                /\ IF lock_waiters = <<>>
                     THEN /\ lock' = 0
                          /\ pc' = [pc EXCEPT ![i] = cont]
                          /\ UNCHANGED lock_waiters
                     ELSE /\ lock' = Head(lock_waiters)
                          /\ lock_waiters' = Tail(lock_waiters)
                          /\ pc' = [pc EXCEPT ![i] = cont,
                                              ![Head(lock_waiters)] = "locked"]

\* `async with self._lock` finds the lock taken: queue on it.
QueueOnLock(i) ==
  /\ ~LockFree
  /\ lock_waiters' = Append(lock_waiters, i)
  /\ pc' = [pc EXCEPT ![i] = "lockwait"]
  /\ UNCHANGED <<tokens, last_update, requests, lock, wake>>

\* Whether the step admits task i (acquire() returns in it).
Admits(i) == pc'[i] \notin {"rlsleep", "lockwait", "locked"}

InitLimiter ==
  /\ tokens = Capacity
  /\ last_update = now
  /\ requests = <<>>
  /\ lock = 0
  /\ lock_waiters = <<>>

----------------------------------------------------------------------------
(* The breaker driven directly through its interface (SpecCB).             *)

NoRet == [op |-> "none", ep |-> "-", pre |-> "-", res |-> "-"]
NoHist == [fails |-> 0, succ |-> "never", opened |-> -1]

InitBreaker ==
  /\ cb_failure_counts = EmptyDict
  /\ cb_open_times = EmptyDict
  /\ cb_states = EmptyDict
  /\ circuit_breakers = EmptyDict
  /\ ret = NoRet
  /\ hist = [e \in Endpoints |-> NoHist]

InitTasks ==
  /\ pc = [i \in Tasks |-> "idle"]
  /\ wake = [i \in Tasks |-> 0]
  /\ admits = <<>>

NoOutcome == [data |-> "-", error |-> "-"]

NotChecked == [open |-> FALSE, left |-> FALSE, half |-> FALSE]
NothingRecorded == [succ |-> 0, fail |-> 0]

InitCall ==
  /\ phase = "idle"
  /\ calls = 0
  /\ endpoints = <<>>
  /\ sink = "none"
  /\ successful = EmptyDict
  /\ failed = EmptyDict
  /\ completed = 0
  /\ sink_calls = 0
  /\ attempt = [i \in Tasks |-> 0]
  /\ outcome = [i \in Tasks |-> NoOutcome]
  /\ chk = [i \in Tasks |-> NotChecked]
  /\ acq = [i \in Tasks |-> 0]
  /\ sent = [i \in Tasks |-> 0]
  /\ left_open = EmptyDict
  /\ taken = 0
  /\ recorded = [i \in Tasks |-> NothingRecorded]
  /\ errors = [i \in Tasks |-> <<>>]
  /\ slept = [i \in Tasks |-> <<>>]
  /\ finalized = <<>>
  /\ events = <<>>

InitCB ==
  /\ variant \in Variants
  /\ now = 0
  /\ failure_threshold \in 1..MaxThreshold
  /\ recovery_timeout \in 1..MaxRecovery
  /\ max_requests = 1
  /\ max_retries = 1
  /\ InitBreaker
  /\ InitLimiter
  /\ InitTasks
  /\ InitCall

\* The breaker part of recording a failure for endpoint e, in either variant.
DoRecordFailure(e) ==
  IF variant = "mcp"
    THEN /\ SetRegistry(record_failure(Registry, e))
         /\ UNCHANGED circuit_breakers
    ELSE /\ circuit_breakers' =
              Put(get_circuit_breaker(e), e,
                  plain_record_failure(get_circuit_breaker(e)[e]))
         /\ UNCHANGED <<cb_failure_counts, cb_states, cb_open_times>>

DoRecordSuccess(e) ==
  IF variant = "mcp"
    THEN /\ SetRegistry(record_success(Registry, e))
         /\ UNCHANGED circuit_breakers
    ELSE /\ circuit_breakers' =
              Put(get_circuit_breaker(e), e,
                  plain_record_success(get_circuit_breaker(e)[e]))
         /\ UNCHANGED <<cb_failure_counts, cb_states, cb_open_times>>

\* The availability check of fetch_one: is_open (mcp) or
\* _get_circuit_breaker + is_available (plain).
DoCheck(e) ==
  IF variant = "mcp"
    THEN /\ SetRegistry(is_open(Registry, e).cb)
         /\ UNCHANGED circuit_breakers
    ELSE /\ circuit_breakers' = get_circuit_breaker(e)
         /\ UNCHANGED <<cb_failure_counts, cb_states, cb_open_times>>

CheckResult(e) ==
  IF variant = "mcp" THEN get_state(Registry, e).result
  ELSE IF plain_is_available(get_circuit_breaker(e)[e]) THEN "AVAILABLE" ELSE "UNAVAILABLE"

\* The state stored for endpoint e once one more failure is recorded.
StateAfterFailure(e) ==
  IF variant = "mcp" THEN Get(record_failure(Registry, e).states, e, "CLOSED")
  ELSE plain_record_failure(get_circuit_breaker(e)[e]).state

CBRecordFailure(e) ==
  /\ StoredCount(e) < MaxFailures
  /\ DoRecordFailure(e)
  /\ ret' = [op |-> "record_failure", ep |-> e, pre |-> StoredState(e), res |-> "-"]
  /\ hist' = [hist EXCEPT ![e].fails = @ + 1,
                          ![e].opened =
                             IF Available(e) /\ StateAfterFailure(e) = "OPEN"
                               THEN now ELSE @]
  /\ UNCHANGED <<cfgVars, now, rlVars, taskVars, admits, callVars>>

CBRecordSuccess(e) ==
  /\ DoRecordSuccess(e)
  /\ ret' = [op |-> "record_success", ep |-> e, pre |-> StoredState(e), res |-> "-"]
  /\ hist' = [hist EXCEPT ![e] = [fails |-> 0, succ |-> StoredState(e),
                                  opened |-> -1]]
  /\ UNCHANGED <<cfgVars, now, rlVars, taskVars, admits, callVars>>

CBGetState(e) ==
  /\ DoCheck(e)
  /\ ret' = [op |-> "get_state", ep |-> e, pre |-> StoredState(e), res |-> CheckResult(e)]
  /\ UNCHANGED <<cfgVars, now, hist, rlVars, taskVars, admits, callVars>>

CBTick ==
  /\ now < MaxTime
  /\ now' = now + 1
  /\ ret' = NoRet
  /\ UNCHANGED <<cfgVars, cbVars, hist, rlVars, taskVars, admits, callVars>>

NextCB ==
  \/ \E e \in Endpoints : CBRecordFailure(e)
  \/ \E e \in Endpoints : CBRecordSuccess(e)
  \/ \E e \in Endpoints : CBGetState(e)
  \/ CBTick

SpecCB == InitCB /\ [][NextCB]_vars

\* The same with time that advances, and goes on until the recovery timeout
\* of every Open endpoint is over; failures are recorded up to MaxTime.
CBTickOn ==
  /\ now >= MaxTime
  /\ \E e \in Endpoints :
       StoredState(e) = "OPEN"
       /\ now - (IF variant = "mcp" THEN Get(cb_open_times, e, 0)
                 ELSE Get(circuit_breakers, e, NewBreaker).last_failure_time)
            < recovery_timeout
  /\ now' = now + 1
  /\ ret' = NoRet
  /\ UNCHANGED <<cfgVars, cbVars, hist, rlVars, taskVars, admits, callVars>>

NextCBFair ==
  \/ \E e \in Endpoints : now <= MaxTime /\ CBRecordFailure(e)
  \/ \E e \in Endpoints : CBRecordSuccess(e)
  \/ \E e \in Endpoints : CBGetState(e)
  \/ CBTick
  \/ CBTickOn

SpecCBFair == InitCB /\ [][NextCBFair]_vars /\ WF_vars(CBTick \/ CBTickOn)

----------------------------------------------------------------------------
(* The limiter driven directly through acquire() by MaxTasks callers (SpecRL). *)

InitRL ==
  /\ variant \in Variants
  /\ now = 0
  /\ failure_threshold = 1
  /\ recovery_timeout = 1
  /\ max_requests \in 1..MaxRate
  /\ max_retries = 1
  /\ InitBreaker
  /\ InitLimiter
  /\ InitTasks
  /\ InitCall

\* A caller awaits acquire(): with the lock free it enters at once.
RLCall(i) ==
  /\ pc[i] = "idle"
  /\ Len(admits) + Cardinality({j \in Tasks : pc[j] # "idle"}) < MaxAcquires
  /\ \/ LockFree /\ RunCritical(i, "idle", 0)
     \/ QueueOnLock(i)
  /\ admits' = IF Admits(i) THEN Append(admits, now) ELSE admits
  /\ UNCHANGED <<cfgVars, now, cbVars, cbGhost, callVars>>

\* A caller that was handed the lock runs.
RLRun(i) ==
  /\ pc[i] = "locked"
  /\ RunCritical(i, "idle", 0)
  /\ admits' = IF Admits(i) THEN Append(admits, now) ELSE admits
  /\ UNCHANGED <<cfgVars, now, cbVars, cbGhost, callVars>>

\* asyncio.sleep inside acquire() returns, not before its time.
RLWake(i) ==
  /\ pc[i] = "rlsleep"
  /\ now >= wake[i]
  /\ RunCritical(i, "idle", 0)
  /\ admits' = IF Admits(i) THEN Append(admits, now) ELSE admits
  /\ UNCHANGED <<cfgVars, now, cbVars, cbGhost, callVars>>

RLTick ==
  /\ now < MaxTime
  /\ now' = now + 1
  /\ UNCHANGED <<cfgVars, cbVars, cbGhost, rlVars, taskVars, admits, callVars>>

NextRL ==
  \/ \E i \in Tasks : RLCall(i)
  \/ \E i \in Tasks : RLRun(i)
  \/ \E i \in Tasks : RLWake(i)
  \/ RLTick

SpecRL == InitRL /\ [][NextRL]_vars

\* The same with time that goes on for as long as a caller sleeps in
\* acquire(), and with the event loop's guarantees: time advances, a task that
\* was handed the lock runs, a sleep that is over returns.
RLTickOn ==
  /\ now >= MaxTime
  /\ \E i \in Tasks : pc[i] = "rlsleep" /\ wake[i] > now
  /\ now' = now + 1
  /\ UNCHANGED <<cfgVars, cbVars, cbGhost, rlVars, taskVars, admits, callVars>>

NextRLFair ==
  \/ \E i \in Tasks : RLCall(i)
  \/ \E i \in Tasks : RLRun(i)
  \/ \E i \in Tasks : RLWake(i)
  \/ RLTick
  \/ RLTickOn

SpecRLFair ==
  /\ InitRL
  /\ [][NextRLFair]_vars
  /\ WF_vars(RLTick \/ RLTickOn)
  /\ \A i \in Tasks : WF_vars(RLRun(i)) /\ WF_vars(RLWake(i))

----------------------------------------------------------------------------
(* DataAggregator.fetch_all: one task per endpoint (Spec).                 *)

EndpointLists == UNION {[1..n -> Endpoints] : n \in 0..MaxTasks}
\* on_progress: not given, returns normally, raises on its first invocation
\* only, raises on every invocation.
Sinks == {"none", "ok", "raise_first", "raise"}

CircuitOpenReason == "Circuit breaker open"
Payload == "data"
TransportError == "Failed to fetch"
SinkError == "sink error"
\* str() of the TypeError of `raise last_exception` with last_exception None.
NoAttemptReason == "exceptions must derive from BaseException"
\* str(asyncio.TimeoutError()) in the mcp variant, the literal of the plain one.
TimeoutReason == IF variant = "mcp" THEN "" ELSE "Timeout"

Active == 1..Len(endpoints)
Running(i) == pc[i] \notin {"idle", "done", "raised", "cancelled"}
Ended(i) == pc[i] \in {"done", "raised"}

RECURSIVE Pow2(_)
Pow2(n) == IF n = 0 THEN 1 ELSE 2 * Pow2(n - 1)
\* A backoff that does not grow.
BackoffConstant(k) == BaseDelay
BackoffDelay(k) == BaseDelay * Pow2(k)

\* The time stamp the recovery test reads.
Stamp(e) ==
  IF variant = "mcp" THEN Get(cb_open_times, e, 0)
  ELSE Get(circuit_breakers, e, NewBreaker).last_failure_time

\* What a step of fetch_one works on: the result dicts, the counters and the
\* mcp breaker registry; raised says an exception is propagating.
St0 ==
  [successful |-> successful, failed |-> failed, completed |-> completed,
   sink_calls |-> sink_calls, cb |-> Registry, raised |-> FALSE,
   rs |-> 0, rf |-> 0, ev |-> <<>>]

SinkRaisesAt(n) == sink = "raise" \/ (sink = "raise_first" /\ n = 0)

\* completed += 1; if on_progress: on_progress(...).  ev collects what the
\* sink is handed; the without-MCP sink is handed (completed, total) only, its
\* success and error fields are held as FALSE and "None".
Report(st, ok, err) ==
  IF sink = "none"
    THEN [st EXCEPT !.completed = @ + 1]
    ELSE [st EXCEPT !.completed = @ + 1, !.sink_calls = @ + 1,
                    !.raised = SinkRaisesAt(st.sink_calls),
                    !.ev = Append(@, [task |-> 0, completed |-> st.completed + 1,
                                      total |-> Len(endpoints),
                                      success |-> ok, error |-> err])]

\* mcp, the except branch of fetch_one.
OnException(st, e, reason) ==
  Report([st EXCEPT !.failed = Put(@, e, reason),
                    !.cb = record_failure(@, e),
                    !.rf = @ + 1,
                    !.raised = FALSE], FALSE, reason)

\* mcp, the try branch of fetch_one after retry_with_backoff returned data; an
\* exception of on_progress lands in the except branch.
OnSuccess(st, e, data) ==
  LET r == Report([st EXCEPT !.successful = Put(@, e, data),
                             !.cb = record_success(@, e),
                             !.rs = @ + 1], TRUE, "None")
  IN  IF r.raised THEN OnException(r, e, SinkError) ELSE r

\* A circuit-open branch that counts the rejection as a failure.
OnOpenRecords(st, e) == OnException(st, e, CircuitOpenReason)

\* mcp, the circuit-open branch of fetch_one (outside the try).
OnOpen(st, e) ==
  Report([st EXCEPT !.failed = Put(@, e, CircuitOpenReason)],
         FALSE, CircuitOpenReason)

\* plain, the loop over gather's results after all tasks returned.
RECURSIVE Aggregate(_, _)
Aggregate(st, k) ==
  IF k > Len(endpoints) THEN st
  ELSE LET o == outcome[k]
           e == endpoints[k]
           r == Report(IF o.error = "None"
                         THEN [st EXCEPT !.successful = Put(@, e, o.data)]
                         ELSE [st EXCEPT !.failed = Put(@, e, o.error)],
                       FALSE, "None")
       IN  IF r.raised THEN r ELSE Aggregate(r, k + 1)

ApplyResult(st) ==
  /\ successful' = st.successful
  /\ failed' = st.failed
  /\ completed' = st.completed
  /\ sink_calls' = st.sink_calls

\* The breaker a fetch_all call works with: the aggregator's own, as left.
FreshBreaker == [counts |-> EmptyDict, open_times |-> EmptyDict, states |-> EmptyDict]
AggregatorBreaker == Registry

\* The test `if self._circuit_breaker.is_open(endpoint)` / `if not
\* circuit_breaker.is_available()` of fetch_one.
BreakerNeverRejects(e) == FALSE
BreakerRejects(e) ==
  IF variant = "mcp" THEN is_open(Registry, e).result
  ELSE ~plain_is_available(get_circuit_breaker(e)[e])

\* await self._rate_limiter.acquire() and, once admitted, the transport call
\* under asyncio.wait_for.
\* Where a task goes on once acquire() returned: into its first attempt, or,
\* mcp with max_retries = 0, into a retry_with_backoff that makes none.
AfterAcquire == IF max_retries > 0 THEN "inflight" ELSE "noattempt"

EnterAcquire(i) ==
  \/ LockFree /\ RunCritical(i, AfterAcquire, now + RequestTimeout)
  \/ QueueOnLock(i)

Count(i) ==
  /\ acq' = IF Admits(i) THEN [acq EXCEPT ![i] = @ + 1] ELSE acq
  /\ sent' = IF Admits(i) /\ max_retries > 0
              THEN [sent EXCEPT ![i] = @ + 1] ELSE sent
  /\ taken' = IF Admits(i) THEN taken + 1 ELSE taken

Finished(i) == finalized' = Append(finalized, i)

Finish(i, st) ==
  /\ ApplyResult(st)
  /\ SetRegistry(st.cb)
  /\ recorded' = [recorded EXCEPT ![i] = [succ |-> @.succ + st.rs,
                                          fail |-> @.fail + st.rf]]
  /\ Finished(i)
  /\ events' = events \o [k \in 1..Len(st.ev) |-> [st.ev[k] EXCEPT !.task = i]]
  /\ pc' = [pc EXCEPT ![i] = IF st.raised THEN "raised" ELSE "done"]
  /\ wake' = [wake EXCEPT ![i] = 0]

Init ==
  /\ variant \in Variants
  /\ now = 0
  /\ failure_threshold \in 1..MaxThreshold
  /\ recovery_timeout = MaxRecovery
  /\ max_requests \in 1..MaxRate
  /\ max_retries \in 0..MaxRetries
  /\ InitBreaker
  /\ InitLimiter
  /\ InitTasks
  /\ InitCall

\* fetch_all is called: one fetch_one task per endpoint is started.
FetchAllStart ==
  /\ phase # "running"
  /\ calls < MaxCalls
  /\ \A i \in Tasks : ~Running(i)
  /\ \E eps \in EndpointLists, s \in Sinks :
       /\ endpoints' = eps
       /\ sink' = s
       /\ pc' = [i \in Tasks |-> IF i <= Len(eps) THEN "start" ELSE "idle"]
  /\ phase' = "running"
  /\ calls' = calls + 1
  /\ successful' = EmptyDict
  /\ failed' = EmptyDict
  /\ completed' = 0
  /\ sink_calls' = 0
  /\ wake' = [i \in Tasks |-> 0]
  /\ attempt' = [i \in Tasks |-> 0]
  /\ outcome' = [i \in Tasks |-> NoOutcome]
  /\ chk' = [i \in Tasks |-> NotChecked]
  /\ acq' = [i \in Tasks |-> 0]
  /\ sent' = [i \in Tasks |-> 0]
  /\ left_open' = [e \in {x \in Endpoints : StoredState(x) = "OPEN"} |-> Stamp(e)]
  /\ recorded' = [i \in Tasks |-> NothingRecorded]
  /\ errors' = [i \in Tasks |-> <<>>]
  /\ slept' = [i \in Tasks |-> <<>>]
  /\ finalized' = <<>>
  /\ events' = <<>>
  /\ SetRegistry(AggregatorBreaker)
  /\ UNCHANGED <<cfgVars, now, circuit_breakers, cbGhost, rlVars, admits, taken>>

\* fetch_one up to its first suspension: the breaker check, then either the
\* circuit-open outcome or acquire().
CheckBreaker(i) ==
  /\ pc[i] = "start"
  /\ LET e == endpoints[i]
     IN  /\ chk' = [chk EXCEPT ![i] =
                      [open |-> (StoredState(e) = "OPEN"
                                 /\ now - Stamp(e) < recovery_timeout),
                       left |-> (e \in DOMAIN left_open
                                 /\ now - left_open[e] < recovery_timeout),
                       half |-> (variant = "mcp"
                                 /\ get_state(Registry, e).result = "HALF_OPEN")]]
         /\ IF BreakerRejects(e)
              THEN /\ IF variant = "mcp"
                        THEN /\ Finish(i, OnOpen([St0 EXCEPT !.cb = is_open(Registry, e).cb], e))
                             /\ UNCHANGED <<circuit_breakers, outcome>>
                        ELSE /\ circuit_breakers' = get_circuit_breaker(e)
                             /\ outcome' = [outcome EXCEPT ![i] =
                                              [data |-> "None", error |-> CircuitOpenReason]]
                             /\ pc' = [pc EXCEPT ![i] = "done"]
                             /\ Finished(i)
                             /\ UNCHANGED <<cb_failure_counts, cb_open_times, cb_states,
                                            resultVars, wake, recorded, events>>
                   /\ UNCHANGED <<rlVars, acq, sent, taken>>
              ELSE IF variant = "plain" /\ max_retries = 0
                     THEN \* range(0): the loop body never runs, last_error is None
                          /\ DoCheck(e)
                          /\ outcome' = [outcome EXCEPT ![i] =
                                           [data |-> "None", error |-> "None"]]
                          /\ pc' = [pc EXCEPT ![i] = "done"]
                          /\ Finished(i)
                          /\ UNCHANGED <<resultVars, wake, recorded, events, rlVars,
                                         acq, sent, taken>>
                     ELSE /\ DoCheck(e)
                          /\ EnterAcquire(i)
                          /\ Count(i)
                          /\ UNCHANGED <<resultVars, outcome, recorded, finalized, events>>
  /\ UNCHANGED <<cfgVars, now, cbGhost, admits, phase, calls, endpoints, sink,
                 attempt, left_open, errors, slept>>

\* A task that was handed the limiter's lock runs.
AcquireRun(i) ==
  /\ pc[i] = "locked"
  /\ RunCritical(i, AfterAcquire, now + RequestTimeout)
  /\ Count(i)
  /\ UNCHANGED <<cfgVars, now, cbVars, cbGhost, admits, phase, calls, endpoints,
                 sink, resultVars, attempt, outcome, chk, left_open, traceVars>>

\* asyncio.sleep inside acquire() returns.
AcquireWake(i) ==
  /\ pc[i] = "rlsleep"
  /\ now >= wake[i]
  /\ RunCritical(i, AfterAcquire, now + RequestTimeout)
  /\ Count(i)
  /\ UNCHANGED <<cfgVars, now, cbVars, cbGhost, admits, phase, calls, endpoints,
                 sink, resultVars, attempt, outcome, chk, left_open, traceVars>>

\* A transport success that does not end the retry sequence: the attempt
\* function is invoked once more.
TransportReturnAgain(i) ==
  /\ pc[i] = "inflight"
  /\ now < wake[i]
  /\ sent[i] <= max_retries
  /\ sent' = [sent EXCEPT ![i] = @ + 1]
  /\ UNCHANGED <<cfgVars, now, cbVars, cbGhost, rlVars, taskVars, admits, phase,
                 calls, endpoints, sink, resultVars, attempt, outcome, chk, acq,
                 left_open, taken, traceVars>>

\* mcp with max_retries = 0: retry_with_backoff makes no attempt and raises
\* None, a TypeError that the except branch of fetch_one reports.
NoAttempt(i) ==
  /\ pc[i] = "noattempt"
  /\ Finish(i, OnException(St0, endpoints[i], NoAttemptReason))
  /\ UNCHANGED <<cfgVars, now, circuit_breakers, cbGhost, rlVars, admits, phase,
                 calls, endpoints, sink, attempt, outcome, chk, acq, sent,
                 left_open, taken, errors, slept>>

\* The transport returns a payload within the timeout.
TransportReturn(i) ==
  /\ pc[i] = "inflight"
  /\ now < wake[i]
  /\ LET e == endpoints[i]
     IN  IF variant = "mcp"
           THEN /\ Finish(i, OnSuccess(St0, e, Payload))
                /\ UNCHANGED <<circuit_breakers, outcome>>
           ELSE /\ DoRecordSuccess(e)
                /\ recorded' = [recorded EXCEPT ![i].succ = @ + 1]
                /\ outcome' = [outcome EXCEPT ![i] = [data |-> Payload, error |-> "None"]]
                /\ pc' = [pc EXCEPT ![i] = "done"]
                /\ wake' = [wake EXCEPT ![i] = 0]
                /\ Finished(i)
                /\ UNCHANGED <<resultVars, events>>
  /\ UNCHANGED <<cfgVars, now, cbGhost, rlVars, admits, phase, calls, endpoints,
                 sink, attempt, chk, acq, sent, left_open, taken, errors, slept>>

\* A failed attempt that ends the retry sequence at once.
FailNoRetry(i, reason) ==
  LET e == endpoints[i]
      more == FALSE
      backoff == /\ pc' = [pc EXCEPT ![i] = "backoff"]
                 /\ wake' = [wake EXCEPT ![i] = now + BackoffDelay(attempt[i])]
                 /\ slept' = [slept EXCEPT ![i] = Append(@, BackoffDelay(attempt[i]))]
  IN  /\ errors' = [errors EXCEPT ![i] = Append(@, reason)]
      /\ IF variant = "mcp"
           THEN /\ IF more
                     THEN backoff /\ UNCHANGED <<cb_failure_counts, cb_open_times,
                                                 cb_states, resultVars, recorded,
                                                 finalized, events>>
                     ELSE Finish(i, OnException(St0, e, reason)) /\ UNCHANGED slept
                /\ UNCHANGED <<circuit_breakers, outcome>>
           ELSE /\ DoRecordFailure(e)
                /\ recorded' = [recorded EXCEPT ![i].fail = @ + 1]
                /\ IF more
                     THEN backoff /\ UNCHANGED <<outcome, finalized>>
                     ELSE /\ outcome' = [outcome EXCEPT ![i] =
                                           [data |-> "None", error |-> reason]]
                          /\ pc' = [pc EXCEPT ![i] = "done"]
                          /\ wake' = [wake EXCEPT ![i] = 0]
                          /\ Finished(i)
                          /\ UNCHANGED slept
                /\ UNCHANGED <<resultVars, events>>

\* One attempt failed with `reason`: back off and retry, or give up.
Fail(i, reason) ==
  LET e == endpoints[i]
      more == attempt[i] < max_retries - 1
      backoff == /\ pc' = [pc EXCEPT ![i] = "backoff"]
                 /\ wake' = [wake EXCEPT ![i] = now + BackoffDelay(attempt[i])]
                 /\ slept' = [slept EXCEPT ![i] = Append(@, BackoffDelay(attempt[i]))]
  IN  /\ errors' = [errors EXCEPT ![i] = Append(@, reason)]
      /\ IF variant = "mcp"
           THEN /\ IF more
                     THEN backoff /\ UNCHANGED <<cb_failure_counts, cb_open_times,
                                                 cb_states, resultVars, recorded,
                                                 finalized, events>>
                     ELSE Finish(i, OnException(St0, e, reason)) /\ UNCHANGED slept
                /\ UNCHANGED <<circuit_breakers, outcome>>
           ELSE /\ DoRecordFailure(e)
                /\ recorded' = [recorded EXCEPT ![i].fail = @ + 1]
                /\ IF more
                     THEN backoff /\ UNCHANGED <<outcome, finalized>>
                     ELSE /\ outcome' = [outcome EXCEPT ![i] =
                                           [data |-> "None", error |-> reason]]
                          /\ pc' = [pc EXCEPT ![i] = "done"]
                          /\ wake' = [wake EXCEPT ![i] = 0]
                          /\ Finished(i)
                          /\ UNCHANGED slept
                /\ UNCHANGED <<resultVars, events>>

\* The transport raises within the timeout.
TransportRaise(i) ==
  /\ pc[i] = "inflight"
  /\ now < wake[i]
  /\ Fail(i, TransportError)
  /\ UNCHANGED <<cfgVars, now, cbGhost, rlVars, admits, phase, calls, endpoints,
                 sink, attempt, chk, acq, sent, left_open, taken>>

\* asyncio.wait_for gives up on the transport.
TransportNeverTimesOut(i) ==
  /\ pc[i] = "inflight"
  /\ FALSE
  /\ UNCHANGED vars

TransportTimeout(i) ==
  /\ pc[i] = "inflight"
  /\ now >= wake[i]
  /\ Fail(i, TimeoutReason)
  /\ UNCHANGED <<cfgVars, now, cbGhost, rlVars, admits, phase, calls, endpoints,
                 sink, attempt, chk, acq, sent, left_open, taken>>

\* The backoff sleep returns and the next attempt starts: mcp calls the
\* transport again, plain goes through acquire() again.
BackoffWake(i) ==
  /\ pc[i] = "backoff"
  /\ now >= wake[i]
  /\ attempt' = [attempt EXCEPT ![i] = @ + 1]
  /\ IF variant = "mcp"
       THEN /\ pc' = [pc EXCEPT ![i] = "inflight"]
            /\ wake' = [wake EXCEPT ![i] = now + RequestTimeout]
            /\ sent' = [sent EXCEPT ![i] = @ + 1]
            /\ UNCHANGED <<rlVars, acq, taken>>
       ELSE EnterAcquire(i) /\ Count(i)
  /\ UNCHANGED <<cfgVars, now, cbVars, cbGhost, admits, phase, calls, endpoints,
                 sink, resultVars, outcome, chk, left_open, traceVars>>

\* gather returned: fetch_all builds its result (plain: after its loop over
\* the results, in which on_progress may raise).
FetchAllReturn ==
  /\ phase = "running"
  /\ \A i \in Active : pc[i] = "done"
  /\ IF variant = "mcp"
       THEN phase' = "returned" /\ UNCHANGED <<resultVars, events>>
       ELSE LET st == Aggregate(St0, 1)
            IN  /\ ApplyResult(st)
                /\ events' = [k \in 1..Len(st.ev) |-> [st.ev[k] EXCEPT !.task = k]]
                /\ phase' = IF st.raised THEN "raised" ELSE "returned"
  /\ UNCHANGED <<cfgVars, now, cbVars, cbGhost, rlVars, taskVars, admits, calls,
                 endpoints, sink, attempt, outcome, chk, acq, sent, left_open, taken,
                 recorded, errors, slept, finalized>>

\* gather re-raises the exception of a task; the other tasks run on.
FetchAllRaise ==
  /\ phase = "running"
  /\ \E i \in Active : pc[i] = "raised"
  /\ phase' = "raised"
  /\ UNCHANGED <<cfgVars, now, cbVars, cbGhost, rlVars, taskVars, admits, calls,
                 endpoints, sink, resultVars, attempt, outcome, chk, acq, sent,
                 left_open, taken, traceVars>>

\* Time passes, but not while the event loop has something to run at once: a
\* task that was just created, was handed the lock or has no attempt to make,
\* or fetch_all itself once gather is over.  A sleep or a timeout may end later
\* than asked.
Ready ==
  \/ \E i \in Tasks : pc[i] \in {"start", "locked", "noattempt"}
  \/ phase = "running" /\ \A i \in Active : pc[i] \in {"done", "raised"}

\* The caller cancels fetch_all while its tasks wait: gather cancels them,
\* CancelledError is no Exception, so no fetch_one handles it; `async with`
\* gives the limiter's lock back and the waiters on it are gone; the
\* CancelledError leaves fetch_all.
FetchAllCancel ==
  /\ phase = "running"
  /\ ~Ready
  /\ pc' = [i \in Tasks |-> IF Running(i) THEN "cancelled" ELSE pc[i]]
  /\ wake' = [i \in Tasks |-> 0]
  /\ lock' = 0
  /\ lock_waiters' = <<>>
  /\ phase' = "cancelled"
  /\ UNCHANGED <<cfgVars, now, cbVars, cbGhost, tokens, last_update, requests,
                 admits, calls, endpoints, sink, resultVars, attempt, outcome,
                 chk, acq, sent, left_open, taken, traceVars>>

Tick ==
  /\ ~Ready
  /\ now < MaxTime
  /\ now' = now + 1
  /\ UNCHANGED <<cfgVars, cbVars, cbGhost, rlVars, taskVars, admits, callVars>>

Next ==
  \/ FetchAllStart
  \/ \E i \in Tasks : CheckBreaker(i)
  \/ \E i \in Tasks : AcquireRun(i)
  \/ \E i \in Tasks : AcquireWake(i)
  \/ \E i \in Tasks : NoAttempt(i)
  \/ \E i \in Tasks : TransportReturn(i)
  \/ \E i \in Tasks : TransportRaise(i)
  \/ \E i \in Tasks : TransportTimeout(i)
  \/ \E i \in Tasks : BackoffWake(i)
  \/ FetchAllReturn
  \/ FetchAllRaise
  \/ FetchAllCancel
  \/ Tick

Spec == Init /\ [][Next]_vars

\* One fetch_all call, made at time 0, under a fair event loop that runs every
\* callback that is ready and fires every timer when it is due: time goes on
\* only while tasks wait for timers none of which is due yet.  Nothing obliges
\* the transport to respond, and nobody cancels.
OnTimer(i) == pc[i] \in {"rlsleep", "inflight", "backoff"}

TickOn ==
  /\ ~Ready
  /\ \E i \in Tasks : OnTimer(i)
  /\ \A i \in Tasks : OnTimer(i) => wake[i] > now
  /\ now' = now + 1
  /\ UNCHANGED <<cfgVars, cbVars, cbGhost, rlVars, taskVars, admits, callVars>>

FirstCall == calls = 0 /\ now = 0 /\ FetchAllStart

NextFair ==
  \/ FirstCall
  \/ \E i \in Tasks : CheckBreaker(i)
  \/ \E i \in Tasks : AcquireRun(i)
  \/ \E i \in Tasks : AcquireWake(i)
  \/ \E i \in Tasks : NoAttempt(i)
  \/ \E i \in Tasks : TransportReturn(i)
  \/ \E i \in Tasks : TransportRaise(i)
  \/ \E i \in Tasks : TransportTimeout(i)
  \/ \E i \in Tasks : BackoffWake(i)
  \/ FetchAllReturn
  \/ FetchAllRaise
  \/ TickOn

\* The breaker's threshold plays no part in whether one call ends.
InitFair == Init /\ failure_threshold = 1

SpecFair ==
  /\ InitFair /\ [][NextFair]_vars
  /\ WF_vars(TickOn)
  /\ WF_vars(FetchAllReturn) /\ WF_vars(FetchAllRaise)
  /\ \A i \in Tasks :
       /\ WF_vars(CheckBreaker(i)) /\ WF_vars(NoAttempt(i))
       /\ WF_vars(AcquireRun(i)) /\ WF_vars(AcquireWake(i))
       /\ WF_vars(TransportTimeout(i)) /\ WF_vars(BackoffWake(i))

----------------------------------------------------------------------------
(* Claims about the breaker, checked under SpecCB.                         *)

\* C8: with threshold N >= 1 a never-seen endpoint starts Closed and available,
\* is still available after each of the first N-1 consecutive record_failure
\* calls, and is Open and unavailable immediately after the N-th.
C8_OpensAtThreshold ==
  \A e \in Endpoints :
    hist[e].succ = "never" =>
      /\ hist[e].fails < failure_threshold
           => StoredState(e) = "CLOSED" /\ Available(e)
      /\ (hist[e].fails = failure_threshold /\ ret.op = "record_failure" /\ ret.ep = e)
           => StoredState(e) = "OPEN" /\ ~Available(e)

\* The N-th consecutive failure (N >= 2) has just been recorded on an endpoint
\* that never succeeded.
C8_Witness ==
  \E e \in Endpoints :
    /\ hist[e].succ = "never"
    /\ failure_threshold >= 2
    /\ hist[e].fails = failure_threshold
    /\ ret.op = "record_failure" /\ ret.ep = e

\* C9: (mcp) a get_state / is_open call on an endpoint stored Open reports Open
\* and leaves it Open while now - openedAt < recovery_timeout; the first call
\* with now - openedAt >= recovery_timeout moves it to HalfOpen and reports
\* HalfOpen, which is available.
C9_OpenUntilRecovery ==
  variant = "mcp" =>
    \A e \in Endpoints :
      (ret.op = "get_state" /\ ret.ep = e /\ ret.pre = "OPEN") =>
        IF now - cb_open_times[e] < recovery_timeout
          THEN ret.res = "OPEN" /\ cb_states[e] = "OPEN" /\ ~Available(e)
          ELSE ret.res = "HALF_OPEN" /\ cb_states[e] = "HALF_OPEN" /\ Available(e)

\* A get_state call found the endpoint Open exactly recovery_timeout after it
\* opened and moved it to HalfOpen.
C9_Witness ==
  /\ variant = "mcp"
  /\ \E e \in Endpoints :
       /\ ret.op = "get_state" /\ ret.ep = e /\ ret.pre = "OPEN"
       /\ ret.res = "HALF_OPEN"
       /\ now - cb_open_times[e] = recovery_timeout

\* C10: record_success from any state and any failure count leaves the endpoint
\* Closed with failure count 0, so that it stays available through the next
\* N-1 failures.
C10_SuccessResets ==
  \A e \in Endpoints :
    /\ (ret.op = "record_success" /\ ret.ep = e)
         => StoredState(e) = "CLOSED" /\ StoredCount(e) = 0
    /\ (hist[e].succ # "never" /\ hist[e].fails < failure_threshold)
         => StoredState(e) = "CLOSED" /\ Available(e)

\* A success was recorded on a HalfOpen endpoint (failure count at the
\* threshold), and N-1 >= 1 failures have been recorded since.
C10_Witness ==
  \E e \in Endpoints :
    /\ hist[e].succ = "HALF_OPEN"
    /\ failure_threshold >= 2
    /\ hist[e].fails = failure_threshold - 1

\* C11: (mcp) a single record_failure on a HalfOpen endpoint moves it back to
\* Open with openedAt stamped to the current time, for every threshold N >= 1;
\* an Open endpoint is unavailable exactly while now - openedAt is below the
\* recovery timeout, so the endpoint is unavailable for a full timeout again.
C11_HalfOpenFailureReopens ==
  variant = "mcp" =>
    \A e \in Endpoints :
      /\ (ret.op = "record_failure" /\ ret.ep = e /\ ret.pre = "HALF_OPEN")
           => /\ cb_states[e] = "OPEN"
              /\ cb_open_times[e] = now
              /\ ~Available(e)
      /\ (e \in DOMAIN cb_states /\ cb_states[e] = "OPEN")
           => (Available(e) <=> now - cb_open_times[e] >= recovery_timeout)

\* mcp, threshold 2: a failure has just been recorded on a HalfOpen endpoint,
\* taking its count above the threshold.
C11_Witness ==
  /\ variant = "mcp"
  /\ failure_threshold = 2
  /\ \E e \in Endpoints :
       /\ ret.op = "record_failure" /\ ret.ep = e /\ ret.pre = "HALF_OPEN"
       /\ cb_failure_counts[e] > failure_threshold

\* C25: the breaker always eventually allows a probe: with time advancing, an
\* endpoint that an availability check would refuse is eventually one that an
\* availability check accepts; no endpoint stays unavailable forever.
C25_EventuallyAvailable ==
  \A e \in Endpoints : (~Available(e)) ~> Available(e)

\* An availability check on an endpoint stored Open has just answered that
\* the endpoint is available, the recovery timeout being over.
C25_Witness ==
  \E e \in Endpoints :
    /\ ret.op = "get_state" /\ ret.ep = e /\ ret.pre = "OPEN"
    /\ ret.res \in {"HALF_OPEN", "AVAILABLE"}
    /\ Available(e)

\* C31: in the without-MCP breaker an open breaker is available once
\* recovery_time has elapsed since the moment it opened, also when further
\* failures were recorded after it opened.
C31_PlainRecoversFromOpening ==
  variant = "plain" =>
    \A e \in Endpoints :
      (/\ StoredState(e) = "OPEN"
       /\ hist[e].opened >= 0
       /\ now - hist[e].opened >= recovery_timeout)
        => Available(e)

\* C32: get_state / is_open of the with-MCP breaker changes nothing except
\* the Open-to-HalfOpen transition after the recovery timeout: on any other
\* endpoint it reports the stored state and leaves the three dicts as they
\* are, and the transition itself changes the state of that endpoint only.
C32_GetStateFrame ==
  [][\A e \in Endpoints :
       (variant = "mcp" /\ CBGetState(e)) =>
         /\ cb_failure_counts' = cb_failure_counts
         /\ cb_open_times' = cb_open_times
         /\ IF StoredState(e) = "OPEN" /\ now - Stamp(e) >= recovery_timeout
              THEN /\ cb_states' = Put(cb_states, e, "HALF_OPEN")
                   /\ ret'.res = "HALF_OPEN"
              ELSE /\ cb_states' = cb_states
                   /\ ret'.res = StoredState(e)]_vars

\* get_state was called on an Open endpoint whose timeout was not over, and
\* reported Open.
C32_Witness ==
  /\ variant = "mcp"
  /\ ret.op = "get_state" /\ ret.pre = "OPEN" /\ ret.res = "OPEN"
  /\ StoredState(ret.ep) = "OPEN"
  /\ now - Stamp(ret.ep) < recovery_timeout
  /\ now > Stamp(ret.ep)

\* C34: breaker state is per endpoint: record_failure, record_success and
\* get_state for one endpoint leave the state, failure count, opening time
\* and availability of every other endpoint as they were.
C34_PerEndpoint ==
  [][\A a, b \in Endpoints :
       (a # b /\ (CBRecordFailure(a) \/ CBRecordSuccess(a) \/ CBGetState(a)))
         => /\ StoredState(b)' = StoredState(b)
            /\ StoredCount(b)' = StoredCount(b)
            /\ Stamp(b)' = Stamp(b)
            /\ Available(b)' = Available(b)]_vars

\* One endpoint has failed MaxFailures times and is rejected, and a check of
\* another endpoint, which has no failure, has just let it pass.
C34_Witness ==
  \E a, b \in Endpoints :
    /\ a # b
    /\ StoredState(a) = "OPEN" /\ ~Available(a) /\ StoredCount(a) = MaxFailures
    /\ StoredCount(b) = 0 /\ Available(b)
    /\ ret.op = "get_state" /\ ret.ep = b /\ ret.res \in {"CLOSED", "AVAILABLE"}

\* C38: in every reachable state of the with-MCP breaker, for every
\* endpoint: the state is Closed iff the failure count is below the
\* threshold, and it is Open or HalfOpen iff the count is at or above the
\* threshold, and then the opening time is set.
C38_StateMatchesCount ==
  variant = "mcp" =>
    \A e \in Endpoints :
      /\ StoredState(e) = "CLOSED" <=> StoredCount(e) < failure_threshold
      /\ StoredState(e) \in {"OPEN", "HALF_OPEN"} <=> StoredCount(e) >= failure_threshold
      /\ StoredState(e) \in {"OPEN", "HALF_OPEN"} => e \in DOMAIN cb_open_times

\* One endpoint is HalfOpen with its count above the threshold while another,
\* closed again by a success, has failed once more below the threshold.
C38_Witness ==
  /\ variant = "mcp" /\ failure_threshold = 2
  /\ \E a, b \in Endpoints :
       /\ StoredState(a) = "HALF_OPEN" /\ StoredCount(a) > failure_threshold
       /\ StoredState(b) = "CLOSED" /\ StoredCount(b) = 1
       /\ hist[b].succ = "OPEN"

----------------------------------------------------------------------------
(* Claims about fetch_all, checked under Spec.                             *)

\* C1: in each variant the result fetch_all returns satisfies
\* |successful| + |failed| = |endpoints|, the key sets of successful and
\* failed are disjoint, and their union is the set of input endpoints.  Stated
\* here for endpoint lists without repetition only, where |endpoints| is
\* unambiguous; the code breaks it even there.
C1_ResultPartition ==
  (/\ phase = "returned"
   /\ \A i, j \in Active : endpoints[i] = endpoints[j] => i = j)
    => /\ Cardinality(DOMAIN successful) + Cardinality(DOMAIN failed) = Len(endpoints)
       /\ DOMAIN successful \cap DOMAIN failed = {}
       /\ DOMAIN successful \cup DOMAIN failed = {endpoints[i] : i \in Active}

\* C2: fetch_all never fails as a whole; no exception is raised out of it.
C2_NeverRaises == phase # "raised"

\* C3: a task that finds its endpoint's breaker Open with the recovery timeout
\* not elapsed ends at once with the circuit-breaker-open failure: the
\* transport was invoked zero times for it, acquire() was not called for it
\* and no retry attempt was made.  The result dicts are keyed by endpoint, so
\* the entry is looked at when no other task of the call serves the endpoint.
C3_OpenShortCircuits ==
  \A i \in Active :
    chk[i].open =>
      /\ pc[i] \in {"done", "raised"}
      /\ sent[i] = 0 /\ acq[i] = 0 /\ attempt[i] = 0
      /\ variant = "plain" =>
           outcome[i] = [data |-> "None", error |-> CircuitOpenReason]
      /\ ((variant = "mcp" \/ phase = "returned")
             /\ \A j \in Active : endpoints[j] = endpoints[i] => j = i)
           => /\ endpoints[i] \in DOMAIN failed
              /\ failed[endpoints[i]] = CircuitOpenReason
              /\ endpoints[i] \notin DOMAIN successful

\* plain: fetch_all returned, one of its tasks had found its breaker Open
\* while another endpoint of the same call went to the transport.
C3_Witness ==
  /\ variant = "plain"
  /\ phase = "returned"
  /\ \E i, j \in Active :
       /\ endpoints[i] # endpoints[j]
       /\ chk[i].open /\ pc[i] = "done" /\ sent[i] = 0
       /\ sent[j] > 0

\* C4: breaker state and token bucket persist across fetch_all calls on the
\* same aggregator.  An endpoint that the earlier calls left Open is, in a
\* later call made before the recovery timeout elapses, short-circuited to the
\* circuit-breaker-open failure without a transport invocation; and the tokens
\* taken over all calls never exceed the one bucket's capacity plus what
\* elapsed time refilled (mcp; tokens in units of 1/TokScale).
C4_PersistsAcrossCalls ==
  /\ \A i \in Active :
       chk[i].left =>
         /\ pc[i] \in {"done", "raised"}
         /\ sent[i] = 0
         /\ variant = "plain" =>
              outcome[i] = [data |-> "None", error |-> CircuitOpenReason]
         /\ (variant = "mcp" /\ \A j \in Active : endpoints[j] = endpoints[i] => j = i)
              => /\ endpoints[i] \in DOMAIN failed
                 /\ failed[endpoints[i]] = CircuitOpenReason
  /\ variant = "mcp" => tokens + OneToken * taken <= Capacity + now

\* mcp, threshold 1: the second fetch_all on the aggregator returned, and a
\* task of it was short-circuited on an endpoint the first call left Open.
C4_Witness ==
  /\ variant = "mcp"
  /\ failure_threshold = 1
  /\ calls = 2
  /\ phase = "returned"
  /\ \E i \in Active :
       /\ \A j \in Active : endpoints[j] = endpoints[i] => j = i
       /\ chk[i].left /\ pc[i] = "done" /\ sent[i] = 0

\* C5: (mcp) every transport attempt, retries included, is preceded by its own
\* acquire(): no task has invoked the transport more often than acquire() has
\* returned to it.
C5_AcquirePerAttempt ==
  variant = "mcp" => \A i \in Tasks : sent[i] <= acq[i]

\* C12: (mcp) while an endpoint's breaker is HalfOpen exactly one probing
\* request is allowed: no two tasks for the endpoint have both passed the
\* breaker check in HalfOpen and reached the transport with no record_success
\* or record_failure made by either of them yet.
C12_OneProbe ==
  variant = "mcp" =>
    \A i, j \in Active :
      ~ /\ i # j
        /\ endpoints[i] = endpoints[j]
        /\ chk[i].half /\ chk[j].half
        /\ sent[i] > 0 /\ sent[j] > 0
        /\ recorded[i] = NothingRecorded /\ recorded[j] = NothingRecorded

\* C13: (mcp) a task that passed the breaker check records nothing before its
\* last attempt is over and then calls exactly one of record_success /
\* record_failure, exactly once; after a success that is one success and zero
\* failures.
C13_OneRecordPerTask ==
  variant = "mcp" =>
    \A i \in Active :
      /\ Running(i) => recorded[i] = NothingRecorded
      /\ (Ended(i) /\ sent[i] > 0) => recorded[i].succ + recorded[i].fail = 1

\* C14: (plain) a retry sequence that ends in a success has recorded exactly
\* one success and no failure on the breaker, and one that ends in a failure
\* exactly one failure, whatever max_retries is.
C14_PlainOneRecordPerFetch ==
  variant = "plain" =>
    \A i \in Active :
      (pc[i] = "done" /\ sent[i] > 0) =>
        recorded[i] = IF outcome[i].error = "None"
                        THEN [succ |-> 1, fail |-> 0]
                        ELSE [succ |-> 0, fail |-> 1]

\* C15: when the attempt function fails exactly k times (k < max_retries) and
\* then succeeds, the retry sequence yields that success after exactly k+1
\* invocations: every invocation but the first follows a failure, and the
\* success ends the sequence.
C15_SuccessAfterKPlusOne ==
  \A i \in Active :
    /\ pc[i] = "inflight" => sent[i] = Len(errors[i]) + 1
    /\ recorded[i].succ >= 1
         => /\ Ended(i)
            /\ Len(errors[i]) < max_retries
            /\ sent[i] = Len(errors[i]) + 1

\* max_retries = 3: a task failed twice, succeeded on its third invocation and
\* is finished.
C15_Witness ==
  /\ max_retries = 3
  /\ \E i \in Active :
       recorded[i].succ = 1 /\ Len(errors[i]) = 2 /\ sent[i] = 3 /\ pc[i] = "done"

\* C16: when the attempt function always fails, it is invoked exactly
\* max_retries times and the failure surfaced is that of the last attempt; the
\* endpoint is not in failed while its task still has attempts to make.
C16_FailureAfterAllAttempts ==
  \A i \in Active :
    LET e == endpoints[i]
        alone == \A j \in Active : endpoints[j] = e => j = i
    IN  /\ (Ended(i) /\ sent[i] > 0 /\ recorded[i].succ = 0)
             => /\ sent[i] = max_retries
                /\ Len(errors[i]) = max_retries
                /\ variant = "plain" => outcome[i].error = errors[i][max_retries]
                /\ (alone /\ (variant = "mcp" \/ phase = "returned"))
                     => e \in DOMAIN failed /\ failed[e] = errors[i][max_retries]
        /\ (Running(i) /\ alone) => e \notin DOMAIN failed

\* max_retries = 2: a task whose first attempt raised and whose second attempt
\* timed out is finished, and fetch_all returned.
C16_Witness ==
  /\ max_retries = 2
  /\ phase = "returned"
  /\ \E i \in Active :
       /\ \A j \in Active : endpoints[j] = endpoints[i] => j = i
       /\ errors[i] = <<TransportError, TimeoutReason>>
       /\ pc[i] = "done" /\ sent[i] = 2

\* C17: (mcp) when every attempt for an endpoint exceeded the timeout, the
\* endpoint's entry in failed carries a non-empty timeout reason.
C17_TimeoutReason ==
  variant = "mcp" =>
    \A i \in Active :
      (/\ Ended(i) /\ sent[i] > 0 /\ recorded[i].succ = 0
       /\ \A j \in Active : endpoints[j] = endpoints[i] => j = i
       /\ \A k \in 1..Len(errors[i]) : errors[i][k] = TimeoutReason)
        => /\ endpoints[i] \in DOMAIN failed
           /\ failed[endpoints[i]] # ""

\* C18: the k-th backoff sleep of a retry sequence (after failed attempt k-1)
\* is BaseDelay * 2^(k-1); a task has slept once per attempt it went on to
\* make, so a sleep happens only between two attempts and none follows the
\* last attempt, be it a success or the final failure.
C18_BackoffBetweenAttempts ==
  \A i \in Active :
    /\ \A k \in 1..Len(slept[i]) : slept[i][k] = BaseDelay * 2^(k - 1)
    /\ pc[i] = "backoff"
         => /\ Len(slept[i]) = Len(errors[i])
            /\ Len(errors[i]) < max_retries
            /\ wake[i] - now <= slept[i][Len(slept[i])]
    /\ pc[i] \notin {"backoff", "cancelled"} => Len(slept[i]) = attempt[i]
    /\ (Ended(i) /\ sent[i] > 0) => Len(slept[i]) = sent[i] - 1

\* max_retries = 3: a task slept BaseDelay and 2 * BaseDelay between its three
\* attempts, all of which failed, and is finished.
C18_Witness ==
  /\ max_retries = 3
  /\ \E i \in Active :
       /\ slept[i] = <<BaseDelay, 2 * BaseDelay>>
       /\ Len(errors[i]) = 3
       /\ pc[i] = "done"

\* C19: when fetch_all has returned, a supplied progress sink was invoked
\* exactly once for every input endpoint (every task), and with no sink there
\* was no event.
C19_OneEventPerEndpoint ==
  phase = "returned" =>
    IF sink = "none"
      THEN events = <<>>
      ELSE \A i \in Active :
             Cardinality({k \in 1..Len(events) : events[k].task = i}) = 1

\* C20: with a sink that returns normally and no endpoint repeated, progress
\* events come in completion order in each variant: the k-th event is the
\* event of the k-th task whose outcome became final.
C20_EventsInCompletionOrder ==
  (sink = "ok" /\ \A i, j \in Active : endpoints[i] = endpoints[j] => i = j) =>
    \A k \in 1..Len(events) :
      k <= Len(finalized) /\ events[k].task = finalized[k]

\* C21: an exception of the progress sink does not abort the orchestration:
\* with a sink that raises, fetch_all does not raise, and an endpoint whose
\* fetch succeeded is in successful only, with no failure recorded on the
\* breaker for it (as in the same run without a sink).
C21_SinkErrorsIgnored ==
  sink \in {"raise", "raise_first"} =>
    /\ phase # "raised"
    /\ \A i \in Active :
         (/\ Ended(i) /\ recorded[i].succ >= 1
          /\ \A j \in Active : endpoints[j] = endpoints[i] => j = i)
           => /\ recorded[i].fail = 0
              /\ variant = "mcp" =>
                   /\ endpoints[i] \in DOMAIN successful
                   /\ endpoints[i] \notin DOMAIN failed

\* C22: when fetch_all is cancelled while tasks wait, it still returns its
\* result, in which the endpoints of the tasks that were waiting are failed
\* with the reason "cancelled".
C22_CancelReportsFailures ==
  \A i \in Active :
    pc[i] = "cancelled" =>
      /\ phase = "returned"
      /\ endpoints[i] \in DOMAIN failed
      /\ failed[endpoints[i]] = "cancelled"

\* C23: an aggregator with max_retries < 1 cannot be constructed, so every
\* fetch that passed the breaker check and ended, reported as succeeded or as
\* failed, has invoked the transport.
C23_MisconfigurationRejected ==
  \A i \in Active : (Ended(i) /\ ~chk[i].open) => sent[i] > 0

\* C27: one endpoint's wait does not stall another: while a task is in a
\* backoff sleep or waits on the transport, it neither holds nor queues for the
\* limiter's lock, and a step of another task that enters the limiter (after
\* a breaker check that lets it pass, from a retry of the without-MCP loop,
\* or on waking in the limiter) with a token available starts its attempt in
\* that step, bounded by its own timeout.
Waiting(i) == pc[i] \in {"backoff", "inflight"}
C27_WaitDoesNotStall ==
  /\ [](\A i \in Tasks :
          Waiting(i) => /\ lock # i
                        /\ \A k \in 1..Len(lock_waiters) : lock_waiters[k] # i)
  /\ [][\A j \in Active :
          (/\ \E i \in Active \ {j} : Waiting(i) /\ endpoints[i] # endpoints[j]
           /\ \/ pc[j] = "start" /\ ~BreakerRejects(endpoints[j]) /\ max_retries > 0
              \/ pc[j] \in {"rlsleep", "locked"}
              \/ pc[j] = "backoff" /\ variant = "plain"
           /\ ~Critical(j).sleep
           /\ pc'[j] \notin {pc[j], "cancelled"})
            => /\ pc'[j] = "inflight"
               /\ wake'[j] = now + RequestTimeout]_vars

\* A task is in its first attempt, admitted strictly after the backoff sleep
\* began in which another endpoint's task still is.
C27_Witness ==
  \E i, j \in Active :
    /\ endpoints[i] # endpoints[j]
    /\ pc[i] = "backoff" /\ pc[j] = "inflight" /\ attempt[j] = 0
    /\ wake[i] - slept[i][Len(slept[i])] < wake[j] - RequestTimeout

\* C26: fetch_all terminates even when the transport never responds: under a
\* fair event loop every call ends, every task that runs reaches a terminal
\* outcome, and fetch_all returns only when every task has reached one.
C26_FetchAllTerminates ==
  /\ (phase = "running") ~> (phase \in {"returned", "raised"})
  /\ \A i \in Tasks : Running(i) ~> Ended(i)
  /\ [](phase = "returned" => \A i \in Active : Ended(i))

\* fetch_all has returned and a task made two or more attempts, all of them
\* ended by the timeout wrapper.
C26_Witness ==
  /\ phase = "returned"
  /\ \E i \in Active :
       /\ sent[i] = max_retries /\ max_retries >= 2
       /\ Len(errors[i]) = max_retries
       /\ \A k \in 1..Len(errors[i]) : errors[i][k] = TimeoutReason

\* C33: a circuit-open rejection does not touch the breaker record: the step
\* in which fetch_one short-circuits an endpoint leaves the state, failure
\* count and opening time of every endpoint as they were.
C33_RejectionLeavesBreaker ==
  [][\A i \in Active :
       (pc[i] = "start" /\ pc'[i] # "start" /\ BreakerRejects(endpoints[i]))
         => /\ cb_failure_counts' = cb_failure_counts
            /\ cb_open_times' = cb_open_times
            /\ cb_states' = cb_states
            /\ circuit_breakers' = circuit_breakers]_vars

\* Both tasks of a call were turned away for the same endpoint, whose breaker
\* is still Open with the count and the stamp the earlier call left.
C33_Witness ==
  /\ calls = 2
  /\ \E i, j \in Active :
       /\ i # j /\ endpoints[i] = endpoints[j]
       /\ chk[i].open /\ chk[j].open /\ Ended(i) /\ Ended(j)
       /\ StoredState(endpoints[i]) = "OPEN"
       /\ endpoints[i] \in DOMAIN left_open
       /\ Stamp(endpoints[i]) = left_open[endpoints[i]]
       /\ Stamp(endpoints[i]) < now

\* The record_failure / record_success calls the tasks 1..k of this call have
\* made for endpoint e.
RECURSIVE RecordedFor(_, _, _)
RecordedFor(e, what, k) ==
  IF k = 0 THEN 0
  ELSE RecordedFor(e, what, k - 1)
       + (IF endpoints[k] = e THEN recorded[k][what] ELSE 0)

\* C35: no update to shared state is lost under concurrent tasks.  In the
\* first call on an aggregator, an endpoint for which no success was recorded
\* has as failure count the number of record_failure calls its tasks made.
\* In every step the with-MCP bucket changes by the refill credited at most
\* once minus one token per acquire that returned in the step, and the
\* without-MCP window gains one entry per acquire that returned.
C35_NoLostUpdate ==
  /\ [](calls = 1 =>
          \A e \in Endpoints :
            RecordedFor(e, "succ", Len(endpoints)) = 0
              => StoredCount(e) = RecordedFor(e, "fail", Len(endpoints)))
  /\ [][LET n == taken' - taken
        IN  /\ n \in {0, 1}
            /\ variant = "mcp" =>
                 tokens' \in {tokens - n * OneToken,
                              Min(Capacity, tokens + (now - last_update)) - n * OneToken}
            /\ variant = "plain" =>
                 \/ n = 0 /\ requests' = requests
                 \/ Len(requests') = Len(FilterRecent(requests)) + n]_vars

\* Two tasks serve the same endpoint, each was admitted by the limiter and
\* each recorded a failure, and the endpoint's count is their sum.
C35_Witness ==
  /\ calls = 1 /\ Len(endpoints) = 2 /\ endpoints[1] = endpoints[2]
  /\ \A i \in Active : recorded[i].fail >= 1 /\ recorded[i].succ = 0 /\ acq[i] >= 1
  /\ StoredCount(endpoints[1]) = recorded[1].fail + recorded[2].fail
  /\ StoredCount(endpoints[1]) > failure_threshold

\* C36: in a fetch_all call over n endpoints with a progress sink that has
\* returned, the completed counts of the successive progress events are
\* 1, 2, ..., n, every event carries total = n, and the last event has
\* completed = total.
C36_CompletedCounts ==
  (phase = "returned" /\ sink # "none") =>
    /\ Len(events) = Len(endpoints)
    /\ \A k \in 1..Len(events) :
         events[k].completed = k /\ events[k].total = Len(endpoints)

\* C37: in the with-MCP variant each progress event of a call that has
\* returned reflects the endpoint's final outcome: success is true iff the
\* endpoint is a key of successful, and an event with success false carries
\* the reason stored in failed for the endpoint.
C37_EventsReflectOutcome ==
  (variant = "mcp" /\ phase = "returned") =>
    \A k \in 1..Len(events) :
      LET e == endpoints[events[k].task]
      IN  /\ events[k].success <=> e \in DOMAIN successful
          /\ ~events[k].success =>
               e \in DOMAIN failed /\ failed[e] = events[k].error

----------------------------------------------------------------------------
(* Claims about the limiter, checked under SpecRL.                         *)

\* C6: (mcp) a limiter for R requests per W seconds admits a burst of R calls
\* and then admits each further call no sooner than W/R after the previous
\* admission.  Stated in the form every bucket of capacity R meets and the
\* claim implies: an admission after the first R comes at least W/R (one token
\* time) after the admission R places before it, so no R+1 admissions fall
\* within less than W/R.
C6_BurstThenSpaced ==
  variant = "mcp" =>
    \A k \in 1..Len(admits) :
      k > max_requests => admits[k] - admits[k - max_requests] >= OneToken

\* C7: (mcp) the token count is never negative and never above max_requests.
C7_TokensInRange ==
  variant = "mcp" => (0 <= tokens /\ tokens <= Capacity)

\* C24: the limiter never deadlocks: with time advancing, every caller that
\* waits inside acquire() (queued on the lock, handed the lock, or sleeping
\* for a token) is eventually admitted, whatever the other callers do.
C24_AcquireEventuallyAdmits ==
  \A i \in Tasks :
    (pc[i] \in {"lockwait", "locked", "rlsleep"}) ~> (pc[i] = "idle")

\* More callers than the burst allows: one sleeps for a token inside
\* acquire() while another is queued on the lock behind it.
C24_Witness ==
  /\ Len(admits) >= max_requests
  /\ \E i, j \in Tasks : pc[i] = "rlsleep" /\ pc[j] = "lockwait"

\* C28: (mcp) every acquire refills first and advances _last_update to now
\* before it decides, also when tokens are available: after an admission
\* _last_update is not older than that admission.
C28_RefillOnEveryAcquire ==
  (variant = "mcp" /\ admits # <<>>) => last_update >= admits[Len(admits)]

\* C29: no task sleeps inside acquire() while it holds the limiter's lock.
C29_NoSleepUnderLock ==
  \A i \in Tasks : pc[i] = "rlsleep" => lock # i

\* C30: (plain) at most max_requests acquire calls are admitted within any
\* window of length time_window: an admission comes at least a whole window
\* after the admission max_requests places before it.
C30_PlainWindowLimit ==
  variant = "plain" =>
    \A k \in 1..Len(admits) :
      k > max_requests => admits[k] - admits[k - max_requests] >= TimeWindow

\* plain, two requests per window: a burst of two some time after
\* construction, and the third admission exactly one window after the first.
C30_Witness ==
  /\ variant = "plain"
  /\ max_requests = 2
  /\ Len(admits) = 3
  /\ admits[3] - admits[1] = TimeWindow
  /\ admits[1] > 0

====
